---- MODULE Spec2Model ----
(***************************************************************************)
(* Model of the multi-account cookie store of src/src/main/Cookie.js       *)
(* (CookieUtils): the cookie jar behind document.cookie, the per-user      *)
(* token / data / avatar entries, the chunked avatar storage, the active   *)
(* user pointer, the recent-user roster and the batch token validation;    *)
(* and of the identifier codec of src/unnamed/part_005 (IdUtils), the      *)
(* record checks of src/unnamed/part_006 (UserUtils) and                   *)
(* src/unnamed/part_002 (ApiService), and the account cards of the login   *)
(* page (src/src/main/CryptoUtils.js).                                     *)
(*                                                                         *)
(* Strings are sequences of one-character strings.  JavaScript null is the *)
(* reserved sequence `null`, which no input contains.                      *)
(***************************************************************************)
EXTENDS Integers, Sequences, FiniteSets, TLC

VARIABLES jar, last, hist, va, ident, app

vars == <<jar, last, hist, va, ident, app>>

(***************************************************************************)
(* Bounds of the model                                                     *)
(***************************************************************************)
\* number of trailing updateLastUsers arguments remembered in hist
HistWindow == 2
\* the longest avatar of the inputs has LongChunks full chunks and a remainder
LongChunks == 5
\* a failing write is one of the first MaxFailAt writes of a call
MaxFailAt == 4
\* the random bodies of the identifiers are IdSamples + 1 values spread over
\* 0000..9999
IdSamples == 40

(***************************************************************************)
(* Program constants (scaled: 3000 -> 3, 3500 -> 4)                        *)
(***************************************************************************)
chunkSize == 3
chunkThreshold == 4
deleteScan == 10
rosterCap == 2

null == <<"null">>
chunked == <<"c", "k">>
default == <<"d", "f">>

Users == {"a", "b", "c"}
Tokens == {<<"t", "1">>}
Profiles == {<<"p">>}

(***************************************************************************)
(* Small string helpers                                                    *)
(***************************************************************************)
Digits == <<"0", "1", "2", "3", "4", "5", "6", "7", "8", "9">>

DigitVal(ch) == (CHOOSE i \in 1..10 : Digits[i] = ch) - 1

IsDigit(ch) == \E i \in 1..10 : Digits[i] = ch

Min(x, y) == IF x <= y THEN x ELSE y

\* JS truthiness of a string-or-null value
Truthy(v) == v # null /\ v # <<>>

\* String.prototype.slice(from, to) with 0-based from, exclusive to, clamped
Slice(s, from, to) == SubSeq(s, from + 1, Min(to, Len(s)))

\* Number.prototype.toString() for a non-negative integer
RECURSIVE toString(_)
toString(n) == IF n < 10 THEN <<Digits[n + 1]>>
               ELSE toString(n \div 10) \o <<Digits[(n % 10) + 1]>>

\* parseInt: value of the leading run of digits; -1 stands for NaN
RECURSIVE ParseDigits(_, _, _)
ParseDigits(s, i, acc) ==
  IF i > Len(s) \/ ~IsDigit(s[i]) THEN acc
  ELSE ParseDigits(s, i + 1, acc * 10 + DigitVal(s[i]))

parseInt(s) == IF s = <<>> \/ ~IsDigit(s[1]) THEN -1 ELSE ParseDigits(s, 1, 0)

(***************************************************************************)
(* Cookie names                                                            *)
(***************************************************************************)
TokenKey(u) == <<"userToken_", u, 0>>
DataKey(u) == <<"userData_", u, 0>>
AvatarKey(u) == <<"userAvatar_", u, 0>>
ChunksKey(u) == <<"userAvatar__chunks", u, 0>>
ChunkKey(u, i) == <<"userAvatar__chunk_", u, i>>
ActiveKey == <<"activeUser", "", 0>>
LastUsersKey == <<"lastUsers", "", 0>>

(***************************************************************************)
(* document.cookie: setCookie / getCookie / deleteCookie                   *)
(***************************************************************************)
\* the part of a cookie string before its first ';'
CookieValue(v) ==
  IF \E i \in 1..Len(v) : v[i] = ";"
  THEN SubSeq(v, 1, (CHOOSE i \in 1..Len(v) :
                       v[i] = ";" /\ \A k \in 1..(i - 1) : v[k] # ";") - 1)
  ELSE v

setCookie(j, name, value) ==
  [k \in DOMAIN j \cup {name} |-> IF k = name THEN CookieValue(value) ELSE j[k]]

getCookie(j, name) == IF name \in DOMAIN j THEN j[name] ELSE null

deleteCookie(j, name) == [k \in DOMAIN j \ {name} |-> j[k]]

(***************************************************************************)
(* JSON.stringify / JSON.parse of the values the store serialises          *)
(***************************************************************************)
\* a parsed userData object; nullData stands for a null result
nullData == [profile |-> null, userAvatar |-> null]

UserData == [profile : Profiles, userAvatar : {null}]

\* JSON.stringify(userData): an absent (undefined) avatar is left out
stringifyData(d) ==
  <<"{">> \o d.profile
          \o (IF d.userAvatar = null THEN <<>> ELSE <<",">> \o d.userAvatar)
          \o <<"}">>

\* JSON.parse of a userData cookie; [ok |-> FALSE] stands for a SyntaxError
parseData(s) ==
  IF Len(s) < 2 \/ s[1] # "{" \/ s[Len(s)] # "}"
  THEN [ok |-> FALSE, data |-> nullData]
  ELSE LET inner == SubSeq(s, 2, Len(s) - 1)
           commas == {i \in 1..Len(inner) : inner[i] = ","}
       IN IF commas = {}
          THEN [ok |-> TRUE, data |-> [profile |-> inner, userAvatar |-> null]]
          ELSE LET c == CHOOSE i \in commas : \A k \in commas : i <= k
               IN [ok |-> TRUE,
                   data |-> [profile |-> SubSeq(inner, 1, c - 1),
                             userAvatar |-> SubSeq(inner, c + 1, Len(inner))]]

\* JSON.stringify(lastUsers): ["c","b"]
RECURSIVE stringifyItems(_)
stringifyItems(l) ==
  IF l = <<>> THEN <<>>
  ELSE <<"\"", Head(l), "\"">>
         \o (IF Len(l) > 1 THEN <<",">> ELSE <<>>) \o stringifyItems(Tail(l))

stringifyList(l) == <<"[">> \o stringifyItems(l) \o <<"]">>

\* JSON.parse of a lastUsers cookie; [ok |-> FALSE] stands for a SyntaxError
parseList(s) ==
  IF Len(s) < 2 \/ s[1] # "[" \/ s[Len(s)] # "]"
  THEN [ok |-> FALSE, list |-> <<>>]
  ELSE LET inner == SubSeq(s, 2, Len(s) - 1)
           n == (Len(inner) + 1) \div 4
           wellFormed ==
             /\ Len(inner) = 4 * n - 1
             /\ \A k \in 1..n :
                  /\ inner[4 * k - 3] = "\""
                  /\ inner[4 * k - 1] = "\""
                  /\ k < n => inner[4 * k] = ","
       IN IF inner = <<>> THEN [ok |-> TRUE, list |-> <<>>]
          ELSE IF wellFormed
               THEN [ok |-> TRUE, list |-> [k \in 1..n |-> inner[4 * k - 2]]]
               ELSE [ok |-> FALSE, list |-> <<>>]

(***************************************************************************)
(* Avatar storage: setUserAvatar / setAvatarChunks / getUserAvatar /       *)
(* getAvatarChunks / deleteUserAvatar                                      *)
(***************************************************************************)
\* What the cookie store does with the writes of one call: write number
\* `at` (0: none) is silently dropped or throws, and the write of the catch
\* block succeeds, is dropped or throws.
NoFail == [at |-> 0, kind |-> "drop", fb |-> "ok"]

\* avatarData.slice(i, i + chunkSize) for i = 0, chunkSize, ...
Chunks(avatarData) ==
  [n \in 1..((Len(avatarData) + chunkSize - 1) \div chunkSize) |->
     Slice(avatarData, (n - 1) * chunkSize, n * chunkSize)]

\* the setCookie calls of setAvatarChunks, in order
ChunkWrites(username, avatarData) ==
  LET chunks == Chunks(avatarData)
  IN <<  <<AvatarKey(username), chunked>>,
         <<ChunksKey(username), toString(Len(chunks))>>  >>
     \o [n \in 1..Len(chunks) |-> <<ChunkKey(username, n - 1), chunks[n]>>]

\* the number of setCookie calls setUserAvatar makes when none fails
NumWrites(avatarData) ==
  IF Len(avatarData) > chunkThreshold
  THEN Len(ChunkWrites("", avatarData)) ELSE 1

RECURSIVE ApplyWrites(_, _, _, _)
ApplyWrites(j, ws, i, plan) ==
  IF i > Len(ws) THEN [jar |-> j, threw |-> FALSE]
  ELSE IF plan.at = i
       THEN IF plan.kind = "throw" THEN [jar |-> j, threw |-> TRUE]
            ELSE ApplyWrites(j, ws, i + 1, plan)
       ELSE ApplyWrites(setCookie(j, ws[i][1], ws[i][2]), ws, i + 1, plan)

setAvatarChunks(j, username, avatarData, plan) ==
  ApplyWrites(j, ChunkWrites(username, avatarData), 1, plan)

\* result: the jar afterwards and whether the call raised
setUserAvatar(j, username, avatarData, plan) ==
  LET r == IF Len(avatarData) > chunkThreshold
           THEN setAvatarChunks(j, username, avatarData, plan)
           ELSE ApplyWrites(j, << <<AvatarKey(username), avatarData>> >>, 1, plan)
  IN IF ~r.threw THEN [jar |-> r.jar, raised |-> FALSE]
     ELSE IF plan.fb = "ok"
          THEN [jar |-> setCookie(r.jar, AvatarKey(username), default),
                raised |-> FALSE]
          ELSE [jar |-> r.jar, raised |-> plan.fb = "throw"]

RECURSIVE Reassemble(_, _, _, _, _)
Reassemble(j, username, i, chunkCount, avatarData) ==
  IF i >= chunkCount THEN avatarData
  ELSE LET chunk == getCookie(j, ChunkKey(username, i))
       IN IF ~Truthy(chunk) THEN null
          ELSE Reassemble(j, username, i + 1, chunkCount, avatarData \o chunk)

getAvatarChunks(j, username) ==
  LET raw == getCookie(j, ChunksKey(username))
      chunkCount == parseInt(IF Truthy(raw) THEN raw ELSE <<"0">>)
  IN IF chunkCount = 0 THEN null
     ELSE Reassemble(j, username, 0, chunkCount, <<>>)

getUserAvatar(j, username) ==
  LET avatar == getCookie(j, AvatarKey(username))
  IN IF Truthy(avatar) /\ avatar # chunked THEN avatar
     ELSE IF avatar = chunked THEN getAvatarChunks(j, username)
     ELSE null

RECURSIVE DeleteChunks(_, _, _)
DeleteChunks(j, username, i) ==
  IF i >= deleteScan THEN j
  ELSE DeleteChunks(deleteCookie(j, ChunkKey(username, i)), username, i + 1)

deleteUserAvatar(j, username) ==
  DeleteChunks(deleteCookie(j, AvatarKey(username)), username, 0)

(***************************************************************************)
(* Account operations of CookieUtils                                       *)
(***************************************************************************)
deleteUserToken(j, username) ==
  deleteUserAvatar(
    deleteCookie(deleteCookie(j, TokenKey(username)), DataKey(username)),
    username)

getLastUsers(j) ==
  LET lastUsers == getCookie(j, LastUsersKey)
  IN IF ~Truthy(lastUsers) THEN <<>>
     ELSE IF parseList(lastUsers).ok THEN parseList(lastUsers).list ELSE <<>>

\* updateLastUsers without the filter that removes the username first
updateLastUsersNoFilter(j, username) ==
  LET unshifted == <<username>> \o getLastUsers(j)
      lastUsers == Slice(unshifted, 0, rosterCap)
  IN setCookie(j, LastUsersKey, stringifyList(lastUsers))

\* updateLastUsers that also deletes the account it drops from the list
updateLastUsersPurging(j, username) ==
  LET filtered == SelectSeq(getLastUsers(j), LAMBDA user : user # username)
      unshifted == <<username>> \o filtered
      lastUsers == Slice(unshifted, 0, rosterCap)
      kept == setCookie(j, LastUsersKey, stringifyList(lastUsers))
  IN IF Len(unshifted) > rosterCap
     THEN deleteUserToken(kept, unshifted[Len(unshifted)])
     ELSE kept

updateLastUsers(j, username) ==
  LET filtered == SelectSeq(getLastUsers(j), LAMBDA user : user # username)
      unshifted == <<username>> \o filtered
      lastUsers == Slice(unshifted, 0, rosterCap)
  IN setCookie(j, LastUsersKey, stringifyList(lastUsers))

setUserToken(j, username, token, userData) ==
  LET j1 == setCookie(j, TokenKey(username), token)
      j2 == IF Truthy(userData.userAvatar)
            THEN setCookie(
                   setUserAvatar(j1, username, userData.userAvatar, NoFail).jar,
                   DataKey(username),
                   stringifyData([userData EXCEPT !.userAvatar = null]))
            ELSE setCookie(j1, DataKey(username), stringifyData(userData))
      j3 == setCookie(j2, ActiveKey, <<username>>)
  IN updateLastUsers(j3, username)

\* setUserToken when the browser does not take one of its two writes:
\* `document.cookie = ...` of the cookie named by lost ("token" or "data") is
\* ignored (kind "drop": entry over the size cap, quota) or throws (kind
\* "throw": store unavailable), which ends setUserToken there
setUserTokenLosing(j, username, token, userData, lost, kind) ==
  LET j1 == IF lost = "token" THEN j ELSE setCookie(j, TokenKey(username), token)
      j2 == IF lost = "data" THEN j1
            ELSE setCookie(j1, DataKey(username), stringifyData(userData))
      j3 == setCookie(j2, ActiveKey, <<username>>)
  IN IF kind = "throw"
     THEN [jar |-> IF lost = "token" THEN j ELSE j1, raised |-> TRUE]
     ELSE [jar |-> updateLastUsers(j3, username), raised |-> FALSE]

getUserToken(j, username) == getCookie(j, TokenKey(username))

getUserData(j, username) ==
  LET userData == getCookie(j, DataKey(username))
      parsed == IF Truthy(userData) THEN parseData(userData)
                ELSE [ok |-> TRUE, data |-> nullData]
      avatarData == getUserAvatar(j, username)
  IN IF ~parsed.ok THEN nullData
     ELSE IF parsed.data = nullData THEN nullData
     ELSE IF Truthy(avatarData) /\ avatarData # default
          THEN [parsed.data EXCEPT !.userAvatar = avatarData]
          ELSE parsed.data

getActiveUser(j) == getCookie(j, ActiveKey)

setActiveUser(j, username) == setCookie(j, ActiveKey, <<username>>)

\* getAllSavedUsers answered from the lastUsers list
getAllSavedUsersOfRoster(j) == {getLastUsers(j)[i] : i \in 1..Len(getLastUsers(j))}

\* the usernames of the userToken_ cookies
getAllSavedUsers(j) ==
  {k[2] : k \in {x \in DOMAIN j : x[1] = "userToken_" /\ x[2] # ""}}

\* the entries of getAllUserTokens, as a set (document.cookie fixes the order)
getAllUserTokens(j) ==
  {[username |-> u, token |-> getUserToken(j, u), userData |-> getUserData(j, u)] :
     u \in {x \in getAllSavedUsers(j) :
              Truthy(getUserToken(j, x)) /\ getUserData(j, x) # nullData}}

(***************************************************************************)
(* Identifier codec: IdUtils of src/unnamed/part_005                       *)
(* An identifier is the string xxyy-zzzz: partition, check digits, body.   *)
(***************************************************************************)
WEIGHTS == <<3, 7, 11, 13>>
ADMIN_PREFIX == <<"0", "0">>
USER_PREFIX_MIN == 1
USER_PREFIX_MAX == 99

\* values that are not strings
undefined == <<"undefined">>
aNumber == <<"number">>
anObject == <<"object">>
NonStrings == {null, undefined, aNumber, anObject}

\* typeof userId === 'string'
typeofString(v) == v \notin NonStrings

\* !userId
Falsy(v) == v \in {null, undefined, <<>>}

\* String.prototype.padStart(n, ch)
padStart(s, n, ch) ==
  IF Len(s) >= n THEN s ELSE [i \in 1..(n - Len(s)) |-> ch] \o s

\* a ^ b on non-negative integers
RECURSIVE BitXor(_, _)
BitXor(a, b) ==
  IF a = 0 /\ b = 0 THEN 0
  ELSE (((a % 2) + (b % 2)) % 2) + 2 * BitXor(a \div 2, b \div 2)

\* the first loop of calculateChecksum, from index i (0-based) down to 0
RECURSIVE luhnSum(_, _)
luhnSum(allDigits, i) ==
  IF i < 0 THEN 0
  ELSE LET digit == allDigits[i + 1]
           doubled == IF digit * 2 > 9 THEN digit * 2 - 9 ELSE digit * 2
       IN (IF (Len(allDigits) - i) % 2 = 0 THEN doubled ELSE digit)
            + luhnSum(allDigits, i - 1)

\* the second loop, from index i (0-based) up
RECURSIVE weightSum(_, _)
weightSum(allDigits, i) ==
  IF i >= Len(allDigits) THEN 0
  ELSE allDigits[i + 1] * WEIGHTS[(i % Len(WEIGHTS)) + 1] + weightSum(allDigits, i + 1)

\* the third loop: xorResult after the digits from index i (0-based) up
RECURSIVE xorResult(_, _, _)
xorResult(allDigits, i, acc) ==
  IF i >= Len(allDigits) THEN acc
  ELSE xorResult(allDigits, i + 1, BitXor(acc, allDigits[i + 1]))

\* calculateChecksum with the XOR term left out
calculateChecksumNoXor(prefix, randomDigits) ==
  LET str == prefix \o randomDigits
      allDigits == [k \in 1..Len(str) |-> DigitVal(str[k])]
      checksum == (luhnSum(allDigits, Len(allDigits) - 1)
                   + weightSum(allDigits, 0)) % 100
  IN padStart(toString(checksum), 2, "0")

calculateChecksum(prefix, randomDigits) ==
  LET str == prefix \o randomDigits
      allDigits == [k \in 1..Len(str) |-> DigitVal(str[k])]
      checksum == (luhnSum(allDigits, Len(allDigits) - 1)
                   + weightSum(allDigits, 0)
                   + xorResult(allDigits, 0, 0)) % 100
  IN padStart(toString(checksum), 2, "0")

\* /^(\d{2})(\d{2})-(\d{4})$/
matchIdPattern(userId) ==
  /\ Len(userId) = 9
  /\ \A i \in 1..4 : IsDigit(userId[i])
  /\ userId[5] = "-"
  /\ \A i \in 6..9 : IsDigit(userId[i])

\* validateUserId without the comparison of the check digits
validateUserIdShapeOnly(userId) ==
  IF Falsy(userId) \/ ~typeofString(userId) THEN FALSE
  ELSE IF ~matchIdPattern(userId) THEN FALSE
  ELSE TRUE

\* validateUserId comparing the last check digit only
validateUserIdLastDigit(userId) ==
  IF Falsy(userId) \/ ~typeofString(userId) THEN FALSE
  ELSE IF ~matchIdPattern(userId) THEN FALSE
  ELSE LET prefix == SubSeq(userId, 1, 2)
           providedChecksum == SubSeq(userId, 3, 4)
           randomDigits == SubSeq(userId, 6, 9)
           calculatedChecksum == calculateChecksum(prefix, randomDigits)
       IN providedChecksum[2] = calculatedChecksum[2]

validateUserId(userId) ==
  IF Falsy(userId) \/ ~typeofString(userId) THEN FALSE
  ELSE IF ~matchIdPattern(userId) THEN FALSE
  ELSE LET prefix == SubSeq(userId, 1, 2)
           providedChecksum == SubSeq(userId, 3, 4)
           randomDigits == SubSeq(userId, 6, 9)
           calculatedChecksum == calculateChecksum(prefix, randomDigits)
       IN providedChecksum = calculatedChecksum

\* userId.startsWith(prefix)
startsWith(s, prefix) ==
  Len(s) >= Len(prefix) /\ SubSeq(s, 1, Len(prefix)) = prefix

\* isAdminId reading the partition without validating
isAdminIdUnchecked(userId) == startsWith(userId, ADMIN_PREFIX)

isAdminId(userId) ==
  IF ~validateUserId(userId) THEN FALSE ELSE startsWith(userId, ADMIN_PREFIX)

\* userId.substring(0, 2) of a valid identifier
getPrefix(userId) ==
  IF ~validateUserId(userId) THEN null ELSE SubSeq(userId, 1, 2)

\* userId.substring(5, 9) of a valid identifier
getRandomDigits(userId) ==
  IF ~validateUserId(userId) THEN null ELSE SubSeq(userId, 6, 9)

\* UserUtils.hasPermission
hasPermission(userId, requiredPermission) ==
  IF ~validateUserId(userId) THEN FALSE
  ELSE IF requiredPermission = "admin" THEN isAdminId(userId)
  ELSE IF requiredPermission = "user" THEN TRUE
  ELSE FALSE

\* the values Math.floor(Math.random() * n) can take
RandomBelow(n) == 0..(n - 1)

\* generateUserId with the body not padded to four digits
generateUserIdUnpadded(isAdmin, floor1, floor2) ==
  LET prefix == IF isAdmin THEN ADMIN_PREFIX
                ELSE padStart(toString(floor1 + USER_PREFIX_MIN), 2, "0")
      randomDigits == toString(floor2)
      checksum == calculateChecksum(prefix, randomDigits)
  IN prefix \o checksum \o <<"-">> \o randomDigits

\* generateUserId with the partition of a regular user drawn from 0 up
generateUserIdFromZero(isAdmin, floor1, floor2) ==
  LET prefix == IF isAdmin THEN ADMIN_PREFIX
                ELSE padStart(toString(floor1), 2, "0")
      randomDigits == padStart(toString(floor2), 4, "0")
      checksum == calculateChecksum(prefix, randomDigits)
  IN prefix \o checksum \o <<"-">> \o randomDigits

\* generateUserId; floor1 and floor2 are the values of the two
\* Math.floor(Math.random() * n) expressions
generateUserId(isAdmin, floor1, floor2) ==
  LET prefix == IF isAdmin THEN ADMIN_PREFIX
                ELSE padStart(toString(floor1 + USER_PREFIX_MIN), 2, "0")
      randomDigits == padStart(toString(floor2), 4, "0")
      checksum == calculateChecksum(prefix, randomDigits)
  IN prefix \o checksum \o <<"-">> \o randomDigits

(***************************************************************************)
(* User records: UserUtils.validateUserData, ApiService.login / register   *)
(* A record carries id, username, email, token and the isAdmin flag, which *)
(* is "true", "false", "undefined" (missing) or "string" (a value that is  *)
(* no boolean).                                                            *)
(***************************************************************************)
\* no record: userData null, response.data.data missing
NoRecord == [id |-> undefined, username |-> <<>>, email |-> <<>>,
             isAdmin |-> "undefined", token |-> null]

\* userData.isAdmin !== isAdminFromId, negated
strictEquals(flag, isAdminFromId) ==
  (flag = "true" /\ isAdminFromId) \/ (flag = "false" /\ ~isAdminFromId)

validateUserData(userData) ==
  IF userData = NoRecord THEN FALSE
  ELSE IF Falsy(userData.id) \/ Falsy(userData.username) \/ Falsy(userData.email)
  THEN FALSE
  ELSE IF ~validateUserId(userData.id) THEN FALSE
  ELSE IF ~strictEquals(userData.isAdmin, isAdminId(userData.id)) THEN FALSE
  ELSE TRUE

\* the outcome of apiClient.post: it threw, or response.data is
\* {success, data}.  The result of login: the envelope's success and the
\* authToken it stored (null: none).

\* login without the comparison of the flag with the identifier
loginTrusting(response) ==
  IF response.threw THEN [success |-> FALSE, authToken |-> null]
  ELSE IF response.success /\ response.data # NoRecord
  THEN IF ~validateUserId(response.data.id)
       THEN [success |-> FALSE, authToken |-> null]
       ELSE [success |-> TRUE,
             authToken |-> IF Truthy(response.data.token)
                           THEN response.data.token ELSE null]
  ELSE [success |-> response.success, authToken |-> null]

login(response) ==
  IF response.threw THEN [success |-> FALSE, authToken |-> null]
  ELSE IF response.success /\ response.data # NoRecord
  THEN IF ~validateUserId(response.data.id)
       THEN [success |-> FALSE, authToken |-> null]
       ELSE IF ~strictEquals(response.data.isAdmin, isAdminId(response.data.id))
       THEN [success |-> FALSE, authToken |-> null]
       ELSE [success |-> TRUE,
             authToken |-> IF Truthy(response.data.token)
                           THEN response.data.token ELSE null]
  ELSE [success |-> response.success, authToken |-> null]

register(response) ==
  IF response.threw THEN [success |-> FALSE, authToken |-> null]
  ELSE IF response.success /\ response.data # NoRecord
  THEN IF ~validateUserId(response.data.id)
       THEN [success |-> FALSE, authToken |-> null]
       ELSE IF ~strictEquals(response.data.isAdmin, isAdminId(response.data.id))
       THEN [success |-> FALSE, authToken |-> null]
       ELSE [success |-> TRUE,
             authToken |-> IF Truthy(response.data.token)
                           THEN response.data.token ELSE null]
  ELSE [success |-> response.success, authToken |-> null]

(***************************************************************************)
(* The login page (Login component of src/src/main/CryptoUtils.js)         *)
(* The stored userData of an account is the record of its user; in the     *)
(* model its profile is the characters of the id followed by one character *)
(* for the isAdmin flag: T (true), F (false), U (no flag).  An account     *)
(* stored without id has the flag character only.                          *)
(***************************************************************************)
FlagOf(ch) == IF ch = "T" THEN "true" ELSE IF ch = "F" THEN "false" ELSE "undefined"

\* the record JSON.parse gives for stored userData; null for none
storedRecord(userData) ==
  IF userData = nullData THEN NoRecord
  ELSE LET id == SubSeq(userData.profile, 1, Len(userData.profile) - 1)
       IN [id |-> IF id = <<>> THEN undefined ELSE id,
           username |-> <<"u">>, email |-> <<"e">>,
           isAdmin |-> FlagOf(userData.profile[Len(userData.profile)]),
           token |-> null]

\* UserUtils.needsMigration
needsMigration(userData) ==
  IF userData = nullData \/ Falsy(storedRecord(userData).id) THEN TRUE
  ELSE ~validateUserId(storedRecord(userData).id)

\* the id of the card the page builds for a saved username
cardId(j, username) ==
  LET userData == getUserData(j, username)
  IN IF needsMigration(userData)
     THEN <<"m", "i", "g", "r", "a", "t", "i", "o", "n", "-">> \o <<username>>
     ELSE IF ~Falsy(storedRecord(userData).id) THEN storedRecord(userData).id
     ELSE <<"l", "e", "g", "a", "c", "y", "-">> \o <<username>>

\* userId.split('-')[0], as a string
RECURSIVE splitFirst(_, _)
splitFirst(userId, i) ==
  IF i > Len(userId) \/ userId[i] = "-" THEN ""
  ELSE userId[i] \o splitFirst(userId, i + 1)

\* handleDeleteUser, confirmed: the cookies after it
handleDeleteUser(j, userId) == deleteUserToken(j, splitFirst(userId, 1))

\* handleUserSelect: the cookies, the page and the userData handed to
\* onLoginSuccess (nullData: not called)
handleUserSelect(j, username) ==
  LET userToken == getUserToken(j, username)
      userData == getUserData(j, username)
  IN IF Truthy(userToken) /\ userData # nullData
     THEN [jar |-> setActiveUser(j, username), session |-> userData, page |-> "main"]
     ELSE [jar |-> j, session |-> nullData, page |-> "login"]

(***************************************************************************)
(* Inputs                                                                  *)
(***************************************************************************)
LettersA == <<"v", "w", "x", "y", "z">>
LettersB == <<"V", "W", "X", "Y", "Z">>

\* a string of n characters whose chunks all differ
Pattern(letters, n) == [i \in 1..n |-> letters[((i - 1) % 5) + 1]]

LongLen == LongChunks * chunkSize + 1

AvatarLens == {0, chunkThreshold - 1, chunkThreshold, chunkThreshold + 1,
               2 * chunkSize + 1, LongLen}

\* avatars made of characters a cookie value may hold
PlainAvatars ==
  {Pattern(LettersA, n) : n \in AvatarLens} \cup
  {Pattern(LettersB, n) : n \in AvatarLens}

\* avatars holding ';', as in the data URL "data:image/png;base64,..."
UrlAvatars == {<<"v", ";", "w">>, <<"V", "W", ";", "X", "Y", "Z", "V">>}

AvatarValues == PlainAvatars \cup UrlAvatars \cup {chunked, default}

AccountAvatars == {null, Pattern(LettersA, chunkThreshold + 1)}

AccountData == [profile : Profiles, userAvatar : AccountAvatars]

LargeUsers == {"a"}

\* accounts of the round trip: two tokens, and avatars longer than the
\* threshold, plain and with the ';' of a data URL
TripUsers == {"a", "b"}

TripTokens == {<<"t", "1">>, <<"t", "2">>}

TripAvatars ==
  {Pattern(LettersA, chunkThreshold + 1), Pattern(LettersB, 2 * chunkSize + 1),
   <<"v", "w", ";", "x", "y", "z", "v">>}

TripData == [profile : Profiles, userAvatar : TripAvatars]

\* accounts written while a validation pass is suspended
RaceUsers == {"a", "b"}

RaceData == [profile : Profiles, userAvatar : {null}]

\* avatars written while writes fail: multi-chunk values of two and three chunks
FailAvatars ==
  {Pattern(LettersA, chunkThreshold + 1), Pattern(LettersB, chunkThreshold + 1),
   Pattern(LettersA, 2 * chunkSize + 1), Pattern(LettersB, 2 * chunkSize + 1)}

FailPlans ==
  [at : 1..MaxFailAt, kind : {"drop", "throw"}, fb : {"ok"}] \cup
  [at : 1..MaxFailAt, kind : {"throw"}, fb : {"drop", "throw"}]

\* random bodies: IdSamples + 1 values from 0000 to 9999
SampleBodies == {(k * 9999) \div IdSamples : k \in 0..IdSamples}

\* strings of the identifier shape, with every pair of check digits
ShapedParts == {0, 1, 7, 10, 42, 99}

ShapedBodies == {0, 35, 1234, 9999}

MakeId(part, check, body) ==
  padStart(toString(part), 2, "0") \o padStart(toString(check), 2, "0")
    \o <<"-">> \o padStart(toString(body), 4, "0")

ShapedIds == {MakeId(p, c, b) : p \in ShapedParts, c \in 0..99, b \in ShapedBodies}

\* strings that miss the shape by one edit of a valid identifier: truncated,
\* extended, with a character that is no digit, with the hyphen replaced
ValidId(part, body) ==
  LET prefix == padStart(toString(part), 2, "0")
      randomDigits == padStart(toString(body), 4, "0")
  IN prefix \o calculateChecksum(prefix, randomDigits) \o <<"-">> \o randomDigits

BaseIds == {ValidId(p, b) : p \in {0, 42}, b \in {35, 9999}}

Malformed(v) ==
  ({SubSeq(v, 1, k) : k \in 0..8}
   \cup {v \o <<c>> : c \in {"0", " ", "\n"}}
   \cup {<<c>> \o v : c \in {"0", " "}}
   \cup {[v EXCEPT ![i] = c] : i \in 1..9, c \in {"x", "-", " "}}
   \cup {[v EXCEPT ![5] = "0"]})
  \ {v}

IdInputs ==
  ShapedIds \cup UNION {Malformed(v) : v \in BaseIds} \cup NonStrings

\* records a server may return: valid identifiers of partitions 00 and 42,
\* identifiers of these partitions with other check digits, a missing and an
\* empty identifier
RecordIds ==
  BaseIds \cup {MakeId(p, c, 35) : p \in {0, 42}, c \in 0..19} \cup {undefined, <<>>}

Flags == {"true", "false", "undefined", "string"}

Records ==
  [id : RecordIds, username : {<<"a">>}, email : {<<"e">>, <<>>},
   isAdmin : Flags, token : {<<"t", "1">>, null}]

Responses ==
  [threw : {FALSE}, success : BOOLEAN, data : Records \cup {NoRecord}]
  \cup [threw : {TRUE}, success : {FALSE}, data : Records]

\* stored accounts of the login page: with a valid identifier of an admin
\* and of a regular user, with an identifier whose check digits are wrong,
\* and without identifier (stored before identifiers existed); with each flag
PageIds ==
  {ValidId(0, 35), ValidId(42, 35), MakeId(0, 0, 35), <<>>}

PageData ==
  {[profile |-> id \o <<f>>, userAvatar |-> null] : id \in PageIds, f \in {"T", "F", "U"}}

Outcomes == {"true", "false", "throw"}

\* every way validateTokenFn can settle
AllOutcomes == Outcomes \cup {"object", "throwNullish"}

\* `isValid ? ... : ...` and `!isValid` of a resolved value
TruthyOutcome(outcome) == outcome \in {"true", "object"}

\* all orders of a finite set
Orders(S) ==
  {q \in [1..Cardinality(S) -> S] : \A x, y \in 1..Cardinality(S) : x # y => q[x] # q[y]}

(***************************************************************************)
(* State                                                                   *)
(***************************************************************************)
NoOp == [op |-> "init", user |-> "", value |-> null,
         failed |-> FALSE, raised |-> FALSE, results |-> <<>>,
         accounts |-> {}, outcomes |-> <<>>, written |-> {}]

\* a validation pass: the entries read at its start (accounts), those still
\* to validate (queue), validationResults (results), and two observers: how
\* validateTokenFn settled for each entry so far (outcomes) and the accounts
\* setUserToken wrote while the pass was suspended (written)
IdleVa == [pc |-> "idle", queue |-> <<>>, results |-> <<>>,
           accounts |-> {}, outcomes |-> <<>>, written |-> {}]

\* no ApiService / UserUtils / login page call yet; authToken null: none stored
NoApp == [op |-> "none", response |-> [threw |-> FALSE, success |-> FALSE, data |-> NoRecord],
          success |-> FALSE, authToken |-> null, user |-> "", page |-> "login",
          session |-> nullData]

\* no IdUtils call yet
NoId == [op |-> "none", arg |-> <<>>, isAdmin |-> FALSE, valid |-> FALSE, id |-> <<>>]

\* hist is an observer of the calls of updateLastUsers; it records only in
\* the specifications that start it empty
NoHist == <<"-">>

Init ==
  /\ jar = <<>>
  /\ last = NoOp
  /\ hist = NoHist
  /\ va = IdleVa
  /\ ident = NoId
  /\ app = NoApp

InitRoster ==
  /\ jar = <<>>
  /\ last = NoOp
  /\ hist = <<>>
  /\ va = IdleVa
  /\ ident = NoId
  /\ app = NoApp

\* the last HistWindow arguments of updateLastUsers
Remember(h, u) ==
  LET all == h \o <<u>>
  IN IF h = NoHist THEN h
     ELSE IF Len(all) > HistWindow
          THEN SubSeq(all, Len(all) - HistWindow + 1, Len(all))
          ELSE all

(***************************************************************************)
(* Actions: one per call of a CookieUtils operation                        *)
(***************************************************************************)
SetAccount(u, t, d) ==
  /\ jar' = setUserToken(jar, u, t, d)
  /\ last' = [NoOp EXCEPT !.op = "setAccount", !.user = u]
  /\ hist' = Remember(hist, u)
  /\ va' = IF va.pc = "running"
           THEN [va EXCEPT !.written =
                   {w \in @ : w.username # u} \cup
                   {[username |-> u, token |-> t, userData |-> d]}]
           ELSE va
  /\ UNCHANGED <<ident, app>>

\* setUserToken with data that carries no avatar, one write not taken
SetAccountLosing(u, t, d, lost, kind) ==
  /\ d.userAvatar = null
  /\ jar' = setUserTokenLosing(jar, u, t, d, lost, kind).jar
  /\ last' = [NoOp EXCEPT !.op = "setAccount", !.user = u, !.failed = TRUE,
                          !.raised = setUserTokenLosing(jar, u, t, d, lost, kind).raised]
  /\ UNCHANGED <<hist, va, ident, app>>

DeleteAccount(u) ==
  /\ jar' = deleteUserToken(jar, u)
  /\ last' = [NoOp EXCEPT !.op = "deleteAccount", !.user = u]
  /\ UNCHANGED <<hist, va, ident, app>>

SetActive(u) ==
  /\ jar' = setActiveUser(jar, u)
  /\ last' = [NoOp EXCEPT !.op = "setActive", !.user = u]
  /\ UNCHANGED <<hist, va, ident, app>>

UpdateRoster(u) ==
  /\ jar' = updateLastUsers(jar, u)
  /\ last' = [NoOp EXCEPT !.op = "updateRoster", !.user = u]
  /\ hist' = Remember(hist, u)
  /\ UNCHANGED <<va, ident, app>>

SetLarge(u, v, plan) ==
  /\ plan.at <= NumWrites(v)
  /\ jar' = setUserAvatar(jar, u, v, plan).jar
  /\ last' = [NoOp EXCEPT !.op = "setLarge", !.user = u, !.value = v,
                          !.failed = (plan.at # 0),
                          !.raised = setUserAvatar(jar, u, v, plan).raised]
  /\ UNCHANGED <<hist, va, ident, app>>

DeleteLarge(u) ==
  /\ jar' = deleteUserAvatar(jar, u)
  /\ last' = [NoOp EXCEPT !.op = "deleteLarge", !.user = u]
  /\ UNCHANGED <<hist, va, ident, app>>

\* a cookie expires or is cleared by the browser
LoseEntry(k) ==
  /\ k \in DOMAIN jar
  /\ jar' = deleteCookie(jar, k)
  /\ last' = [last EXCEPT !.op = "loseEntry"]
  /\ UNCHANGED <<hist, va, ident, app>>

\* validateEntry with the failed account left in place
validateEntryKeeping(j, e, outcome) ==
  IF outcome \in {"true", "false", "object"}
  THEN [jar |-> j,
        pushed |-> <<[username |-> e.username,
                      isValid |-> outcome,
                      userData |-> IF TruthyOutcome(outcome) THEN e.userData ELSE nullData,
                      error |-> "null"]>>,
        rejected |-> FALSE]
  ELSE IF outcome = "throw"
  THEN [jar |-> j,
        pushed |-> <<[username |-> e.username,
                      isValid |-> "false",
                      userData |-> nullData,
                      error |-> "message"]>>,
        rejected |-> FALSE]
  ELSE [jar |-> j, pushed |-> <<>>, rejected |-> TRUE]

\* what one iteration of the loop of batchValidateTokens does once
\* validateTokenFn has settled for entry e.  The outcome is the value it
\* resolved to ("true", "false", or "object": a truthy value that is not a
\* boolean, such as the envelope ApiService.validateSession resolves to) or
\* what it threw ("throw": a value with a message property can be read from;
\* "throwNullish": null or undefined, of which `error.message` in the catch
\* block is a TypeError that ends batchValidateTokens).
validateEntry(j, e, outcome) ==
  IF outcome \in {"true", "false", "object"}
  THEN [jar |-> IF TruthyOutcome(outcome) THEN j ELSE deleteUserToken(j, e.username),
        pushed |-> <<[username |-> e.username,
                      isValid |-> outcome,
                      userData |-> IF TruthyOutcome(outcome) THEN e.userData ELSE nullData,
                      error |-> "null"]>>,
        rejected |-> FALSE]
  ELSE IF outcome = "throw"
  THEN [jar |-> deleteUserToken(j, e.username),
        pushed |-> <<[username |-> e.username,
                      isValid |-> "false",
                      userData |-> nullData,
                      error |-> "message"]>>,
        rejected |-> FALSE]
  ELSE [jar |-> j, pushed |-> <<>>, rejected |-> TRUE]

\* batchValidateTokens up to its first await
ValidateStart(q) ==
  /\ va.pc = "idle"
  /\ q \in Orders(getAllUserTokens(jar))
  /\ va' = [IdleVa EXCEPT !.pc = "running", !.queue = q,
                          !.accounts = getAllUserTokens(jar)]
  /\ last' = [NoOp EXCEPT !.op = "validateStart"]
  /\ UNCHANGED <<jar, hist, ident, app>>

\* validateTokenFn settles for the head of the queue: one loop iteration
ValidateStep(outcome) ==
  /\ va.pc = "running"
  /\ va.queue # <<>>
  /\ LET e == Head(va.queue)
         r == validateEntry(jar, e, outcome)
     IN /\ jar' = r.jar
        /\ IF r.rejected
           THEN /\ va' = IdleVa
                /\ last' = [NoOp EXCEPT !.op = "validateRejected", !.user = e.username]
           ELSE /\ va' = [va EXCEPT !.queue = Tail(va.queue),
                                    !.results = va.results \o r.pushed,
                                    !.outcomes = Append(va.outcomes, outcome)]
                /\ last' = [NoOp EXCEPT !.op = "validateStep", !.user = e.username]
  /\ UNCHANGED <<hist, ident, app>>

\* the loop is over: batchValidateTokens returns validationResults
ValidateFinish ==
  /\ va.pc = "running"
  /\ va.queue = <<>>
  /\ va' = IdleVa
  /\ last' = [NoOp EXCEPT !.op = "validateAll", !.results = va.results,
                          !.accounts = va.accounts, !.outcomes = va.outcomes,
                          !.written = va.written]
  /\ UNCHANGED <<jar, hist, ident, app>>

(***************************************************************************)
(* Actions: one per call of an IdUtils operation                           *)
(***************************************************************************)
ValidateId(userId) ==
  /\ ident.op = "none"
  /\ ident' = [NoId EXCEPT !.op = "validateUserId", !.arg = userId,
                           !.valid = validateUserId(userId)]
  /\ UNCHANGED <<jar, last, hist, va, app>>

GenerateId(isAdmin, floor1, floor2) ==
  /\ ident.op = "none"
  /\ ident' = [NoId EXCEPT !.op = "generateUserId", !.isAdmin = isAdmin,
                           !.id = generateUserId(isAdmin, floor1, floor2)]
  /\ UNCHANGED <<jar, last, hist, va, app>>

(***************************************************************************)
(* Actions: ApiService.login / register, UserUtils.validateUserData        *)
(***************************************************************************)
Login(response) ==
  /\ app.op = "none"
  /\ app' = [NoApp EXCEPT !.op = "login", !.response = response,
                         !.success = login(response).success,
                         !.authToken = login(response).authToken]
  /\ UNCHANGED <<jar, last, hist, va, ident>>

Register(response) ==
  /\ app.op = "none"
  /\ app' = [NoApp EXCEPT !.op = "register", !.response = response,
                         !.success = register(response).success,
                         !.authToken = register(response).authToken]
  /\ UNCHANGED <<jar, last, hist, va, ident>>

ValidateUserData(userData) ==
  /\ app.op = "none"
  /\ app' = [NoApp EXCEPT !.op = "validateUserData",
                         !.response = [threw |-> FALSE, success |-> TRUE, data |-> userData],
                         !.success = validateUserData(userData)]
  /\ UNCHANGED <<jar, last, hist, va, ident>>

(***************************************************************************)
(* Actions: the login page                                                 *)
(***************************************************************************)
\* the card of a saved username is clicked
HandleUserSelect(u) ==
  /\ u \in getAllSavedUsers(jar)
  /\ jar' = handleUserSelect(jar, u).jar
  /\ app' = [NoApp EXCEPT !.op = "handleUserSelect", !.user = u,
                         !.page = handleUserSelect(jar, u).page,
                         !.session = handleUserSelect(jar, u).session]
  /\ last' = [NoOp EXCEPT !.op = "setActive", !.user = u]
  /\ UNCHANGED <<hist, va, ident>>

\* the delete button of the card of a saved username is clicked and confirmed
HandleDeleteUser(u) ==
  /\ u \in getAllSavedUsers(jar)
  /\ jar' = handleDeleteUser(jar, cardId(jar, u))
  /\ app' = [NoApp EXCEPT !.op = "handleDeleteUser", !.user = u]
  /\ last' = [NoOp EXCEPT !.op = "deleteAccount",
                          !.user = splitFirst(cardId(jar, u), 1)]
  /\ UNCHANGED <<hist, va, ident>>

(***************************************************************************)
(* Specifications                                                          *)
(***************************************************************************)
\* The account store as the application drives it: calls run one after the
\* other (none starts while a validation pass is suspended), an account is
\* made active only when its token and data are stored, as the login page
\* checks before it calls setActiveUser, and updateLastUsers runs only inside
\* setUserToken.
Next ==
  \/ va.pc = "idle" /\ \E u \in Users, t \in Tokens, d \in AccountData : SetAccount(u, t, d)
  \/ va.pc = "idle" /\ \E u \in Users : DeleteAccount(u)
  \/ va.pc = "idle" /\ \E u \in Users :
       /\ Truthy(getUserToken(jar, u))
       /\ getUserData(jar, u) # nullData
       /\ SetActive(u)
  \/ \E q \in Orders(getAllUserTokens(jar)) : ValidateStart(q)
  \/ \E o \in Outcomes : ValidateStep(o)
  \/ ValidateFinish

Spec == Init /\ [][Next]_vars

\* the account store called directly, in any order and with any username, the
\* calls of updateLastUsers observed
NextRoster ==
  \/ \E u \in Users, t \in Tokens, d \in AccountData : SetAccount(u, t, d)
  \/ \E u \in Users : DeleteAccount(u)
  \/ \E u \in Users : SetActive(u)
  \/ \E u \in Users : UpdateRoster(u)

SpecRoster == InitRoster /\ [][NextRoster]_vars

\* the chunked store of one avatar key, every write succeeding
NextChunk ==
  \/ \E u \in LargeUsers, v \in AvatarValues : SetLarge(u, v, NoFail)
  \/ \E u \in LargeUsers : DeleteLarge(u)

SpecChunk == Init /\ [][NextChunk]_vars

\* the chunked store with entries that expire
NextLoss ==
  \/ \E u \in LargeUsers, v \in AvatarValues : SetLarge(u, v, NoFail)
  \/ \E u \in LargeUsers : DeleteLarge(u)
  \/ \E k \in DOMAIN jar : LoseEntry(k)

SpecLoss == Init /\ [][NextLoss]_vars

\* the chunked store with writes that fail
NextFail ==
  \/ \E u \in LargeUsers, v \in FailAvatars : SetLarge(u, v, NoFail)
  \/ \E u \in LargeUsers, v \in FailAvatars, p \in FailPlans : SetLarge(u, v, p)
  \/ \E u \in LargeUsers : DeleteLarge(u)

SpecFail == Init /\ [][NextFail]_vars

\* accounts stored with avatars above the threshold and read back
NextTrip ==
  \/ \E u \in TripUsers, t \in TripTokens, d \in TripData : SetAccount(u, t, d)
  \/ \E u \in TripUsers : DeleteAccount(u)

SpecTrip == Init /\ [][NextTrip]_vars

\* validation passes over the stored accounts with no other writer: accounts
\* are written only between passes, and validateTokenFn settles in every way
NextValidate ==
  \/ va.pc = "idle" /\ \E u \in Users, t \in Tokens, d \in AccountData : SetAccount(u, t, d)
  \/ \E q \in Orders(getAllUserTokens(jar)) : ValidateStart(q)
  \/ \E o \in AllOutcomes : ValidateStep(o)
  \/ ValidateFinish

SpecValidate == Init /\ [][NextValidate]_vars

\* validation passes with a second code path: while batchValidateTokens is
\* suspended in `await validateTokenFn(...)` (entries are left in the queue)
\* a login stores an account
NextRace ==
  \/ (va.pc = "idle" \/ va.queue # <<>>) /\
       \E u \in RaceUsers, t \in TripTokens, d \in RaceData : SetAccount(u, t, d)
  \/ \E q \in Orders(getAllUserTokens(jar)) : ValidateStart(q)
  \/ \E o \in Outcomes : ValidateStep(o)
  \/ ValidateFinish

SpecRace == Init /\ [][NextRace]_vars

\* the identifier codec: one call of validateUserId on any input, or of
\* generateUserId with any outcome of its two random draws
NextId ==
  \/ \E v \in IdInputs : ValidateId(v)
  \/ \E a \in BOOLEAN,
        f1 \in RandomBelow(USER_PREFIX_MAX - USER_PREFIX_MIN + 1),
        f2 \in SampleBodies : GenerateId(a, f1, f2)

SpecId == Init /\ [][NextId]_vars

\* records checked on the way in: one call of login or register with any
\* response of the server, or of validateUserData with any record
NextApi ==
  \/ \E r \in Responses : Login(r)
  \/ \E r \in Responses : Register(r)
  \/ \E d \in Records \cup {NoRecord} : ValidateUserData(d)

SpecApi == Init /\ [][NextApi]_vars

\* accounts stored while the browser may refuse the token or the data write
NextWrite ==
  \/ \E u \in RaceUsers, t \in TripTokens, d \in RaceData : SetAccount(u, t, d)
  \/ \E u \in RaceUsers, t \in TripTokens, d \in RaceData,
        lost \in {"token", "data"}, kind \in {"drop", "throw"} :
          SetAccountLosing(u, t, d, lost, kind)
  \/ \E u \in RaceUsers : DeleteAccount(u)

SpecWrite == Init /\ [][NextWrite]_vars

\* validation passes over a store in which a userData_ cookie may have
\* expired or been cleared while its userToken_ cookie is still there
NextOrphan ==
  \/ va.pc = "idle" /\
       \E u \in RaceUsers, t \in Tokens, d \in RaceData : SetAccount(u, t, d)
  \/ va.pc = "idle" /\
       \E k \in DOMAIN jar : k[1] = "userData_" /\ LoseEntry(k)
  \/ \E q \in Orders(getAllUserTokens(jar)) : ValidateStart(q)
  \/ \E o \in Outcomes : ValidateStep(o)
  \/ ValidateFinish

SpecOrphan == Init /\ [][NextOrphan]_vars

\* the login page over the accounts the store holds: accounts stored by a
\* login of this version or an earlier one, cards selected and deleted
NextPage ==
  \/ \E u \in RaceUsers, t \in Tokens, d \in PageData : SetAccount(u, t, d)
  \/ \E u \in RaceUsers : HandleUserSelect(u)
  \/ \E u \in RaceUsers : HandleDeleteUser(u)

SpecPage == Init /\ [][NextPage]_vars

(***************************************************************************)
(* Properties                                                              *)
(***************************************************************************)
roster == getLastUsers(jar)

InRoster(j, u) == \E i \in 1..Len(getLastUsers(j)) : getLastUsers(j)[i] = u

\* the cookies of one username
UserKeys(j, u) == {k \in DOMAIN j : k[2] = u}

\* C1: every username in the roster (cookie lastUsers) has a token entry and a
\* profile entry present.
C1_RosterHasRecords ==
  \A u \in Users :
    InRoster(jar, u) => TokenKey(u) \in DOMAIN jar /\ DataKey(u) \in DOMAIN jar

\* C2: the active username (cookie activeUser), when set, is a member of the
\* roster (cookie lastUsers).
C2_ActiveInRoster ==
  getActiveUser(jar) # null =>
    \E u \in Users : getActiveUser(jar) = <<u>> /\ InRoster(jar, u)

\* C3: deleteAccount(u) leaves getActive() null when u was the active username
\* and leaves the active pointer unchanged when another username was active.
C3_DeleteUnsetsActive ==
  [][\A u \in Users :
       (last'.op = "deleteAccount" /\ last'.user = u) =>
         IF getActiveUser(jar) = <<u>>
         THEN getActiveUser(jar') = null
         ELSE getActiveUser(jar') = getActiveUser(jar)]_vars

\* C4: after deleteAccount(u) no token, data, avatar, chunk-count or chunk
\* entry of u is present, and every entry of every other username is unchanged.
C4_DeleteRemovesEntries ==
  [][\A u \in Users :
       (last'.op = "deleteAccount" /\ last'.user = u) =>
         /\ UserKeys(jar', u) = {}
         /\ \A w \in Users \ {u} :
              /\ UserKeys(jar', w) = UserKeys(jar, w)
              /\ \A k \in UserKeys(jar, w) : jar'[k] = jar[k]]_vars

\* the first rosterCap distinct usernames of h, latest first
RECURSIVE MostRecent(_, _)
MostRecent(h, acc) ==
  IF h = <<>> \/ Len(acc) = 2 THEN acc
  ELSE LET u == h[Len(h)]
           rest == SubSeq(h, 1, Len(h) - 1)
       IN IF \E i \in 1..Len(acc) : acc[i] = u
          THEN MostRecent(rest, acc)
          ELSE MostRecent(rest, Append(acc, u))

C5_RosterShape ==
  LET m == MostRecent(hist, <<>>)
  IN /\ Len(roster) <= 2
     /\ \A x, y \in 1..Len(roster) : x # y => roster[x] # roster[y]
     /\ Len(m) = 2 => roster = m
     /\ Len(m) = 1 => roster # <<>> /\ roster[1] = m[1]
     /\ (Len(m) = 1 /\ Len(hist) < HistWindow) => roster = m
     /\ hist = <<>> => roster = <<>>

C5_HeadIsIdempotent ==
  \A u \in Users :
    (last'.op = "updateRoster" /\ last'.user = u /\ roster # <<>> /\ roster[1] = u)
      => getLastUsers(jar') = roster

\* C5: the roster is a duplicate-free list of at most 2 usernames, most
\* recently used first: updateRoster with a, b, c in sequence yields [c, b],
\* and updateRoster with the username at the head leaves the roster unchanged.
C5_RosterIsMRU == []C5_RosterShape /\ [][C5_HeadIsIdempotent]_vars

\* updateRoster was called with b and then c, and the roster is [c, b]
C5_Witness ==
  /\ last.op = "updateRoster"
  /\ Len(hist) >= 2
  /\ hist[Len(hist) - 1] = "b" /\ hist[Len(hist)] = "c"
  /\ roster = <<"c", "b">>
  /\ TokenKey("a") \in DOMAIN jar

\* C6: when a step drops username e from the roster, the token, profile and
\* avatar entries of e are unchanged, and getAccount(e) and getToken(e) return
\* what they returned before.
C6_EvictionKeepsData ==
  [][\A e \in Users :
       (InRoster(jar, e) /\ ~InRoster(jar', e)) =>
         /\ UserKeys(jar', e) = UserKeys(jar, e)
         /\ \A k \in UserKeys(jar, e) : jar'[k] = jar[k]
         /\ getUserData(jar', e) = getUserData(jar, e)
         /\ getUserToken(jar', e) = getUserToken(jar, e)]_vars

\* a stored account with an avatar has just been dropped from the full roster
C6_Witness ==
  \E e \in Users :
    /\ last.op \in {"setAccount", "updateRoster"} /\ last.user # e
    /\ ~InRoster(jar, e) /\ Len(roster) = 2
    /\ Truthy(getUserToken(jar, e))
    /\ getUserData(jar, e) # nullData
    /\ Truthy(getUserData(jar, e).userAvatar)

\* C7: getLarge directly after setLarge(k, v) returns exactly v, for v of length
\* 0, chunkThreshold - 1, chunkThreshold and LongChunks * chunkSize + 1.
C7_RoundTrip ==
  (/\ last.op = "setLarge"
   /\ Len(last.value) \in {0, chunkThreshold - 1, chunkThreshold, LongLen})
    => getUserAvatar(jar, last.user) = last.value

\* the chunk indices present for a username
ChunkIdx(j, u) == {k[3] : k \in {x \in UserKeys(j, u) : x[1] = "userAvatar__chunk_"}}

\* C8: when the base entry holds the chunk marker and the count entry or a
\* chunk entry below the stored count is absent, getLarge returns null; and
\* getLarge never returns a string shorter than the value last written.
C8_FailClosed ==
  \A u \in LargeUsers :
    /\ (/\ getCookie(jar, AvatarKey(u)) = chunked
        /\ \/ ChunksKey(u) \notin DOMAIN jar
           \/ \E i \in 0..(parseInt(getCookie(jar, ChunksKey(u))) - 1) :
                i \notin ChunkIdx(jar, u))
         => getUserAvatar(jar, u) = null
    /\ (/\ last.op \in {"setLarge", "loseEntry"}
        /\ last.user = u
        /\ last.value # null
        /\ getUserAvatar(jar, u) # null)
         => Len(getUserAvatar(jar, u)) >= Len(last.value)

\* C9: the count entry is present with value N exactly when the chunk entries
\* present are chunk_0 .. chunk_{N-1}; no count or chunk entry survives a
\* deleteLarge and no chunk with index >= N survives an overwrite.
C9_ChunkSetConsistent ==
  \A u \in LargeUsers :
    /\ IF ChunksKey(u) \in DOMAIN jar
       THEN ChunkIdx(jar, u) = 0..(parseInt(jar[ChunksKey(u)]) - 1)
       ELSE ChunkIdx(jar, u) = {}
    /\ (last.op = "deleteLarge" /\ last.user = u) =>
         ChunksKey(u) \notin DOMAIN jar /\ ChunkIdx(jar, u) = {}

\* C10: once a multi-chunk setLarge in which a write failed has finished,
\* whether it returned or raised, getLarge returns the complete new value, the
\* sentinel "default" or null, never a string assembled from a partly written
\* chunk set.
C10_NoPartialValue ==
  (last.op = "setLarge" /\ last.failed) =>
    getUserAvatar(jar, last.user) \in {last.value, default, null}

\* C11: directly after setAccount(u, t, d) with an avatar longer than the
\* chunk threshold, getAccount(u) (getUserData) returns d, the avatar
\* identical character for character, and getToken(u) (getUserToken) returns t.
C11_AccountRoundTrip ==
  [][\A u \in TripUsers, t \in TripTokens, d \in TripData :
       (Len(d.userAvatar) > chunkThreshold /\ SetAccount(u, t, d))
         => /\ getUserData(jar', u) = d
            /\ getUserToken(jar', u) = t]_vars

\* the entry of a validation pass for one username
EntryOf(accounts, u) == CHOOSE e \in accounts : e.username = u

Stored(j, u) == TokenKey(u) \in DOMAIN j \/ DataKey(u) \in DOMAIN j

\* C12: validateAll (batchValidateTokens) handles one account at a time:
\* whenever validateRemote settles for an account, however it settles, the
\* pass goes on with the accounts that remain, and when it returned false or
\* threw (any value) that account's token and data entries are gone before
\* validateRemote is invoked for the next one.
C12_OneAtATime ==
  [][(va.pc = "running" /\ va.queue # <<>>
        /\ last'.op \in {"validateStep", "validateRejected"})
       => /\ va'.pc = "running"
          /\ va'.queue = Tail(va.queue)
          /\ Len(va'.outcomes) = Len(va.outcomes) + 1
          /\ (va'.outcomes[Len(va'.outcomes)] \in {"false", "throw", "throwNullish"}
                => ~Stored(jar', Head(va.queue).username))]_vars

\* C13: with no other writer, validateAll returns exactly one result per
\* stored account that has token and data; an account whose validator
\* returned false (or threw an error) is reported with isValid false and
\* accountData null and its token and data entries are absent afterwards;
\* an account whose validator returned true is reported valid with its data,
\* and its token and data are unchanged and retrievable afterwards.
C13_ValidateAllResult ==
  last.op = "validateAll" =>
    /\ Len(last.results) = Cardinality(last.accounts)
    /\ {last.results[i].username : i \in 1..Len(last.results)}
         = {e.username : e \in last.accounts}
    /\ \A i \in 1..Len(last.results) :
         LET r == last.results[i]
             e == EntryOf(last.accounts, r.username)
         IN /\ last.outcomes[i] \in {"false", "throw"} =>
                 /\ r.isValid = "false"
                 /\ r.userData = nullData
                 /\ ~Stored(jar, r.username)
            /\ last.outcomes[i] = "true" =>
                 /\ r.isValid = "true"
                 /\ r.userData = e.userData
                 /\ getUserToken(jar, r.username) = e.token
                 /\ getUserData(jar, r.username) = e.userData

\* a pass over three accounts returned: one was invalid, two were valid
C13_Witness ==
  /\ last.op = "validateAll"
  /\ Len(last.results) = 3
  /\ Cardinality({i \in 1..3 : last.outcomes[i] = "false"}) = 1
  /\ Cardinality({i \in 1..3 : last.outcomes[i] = "true"}) = 2

\* C14: an outcome of validateRemote other than the boolean true is a
\* failure: the account is reported with isValid false and is deleted.
C14_NonBooleanIsFailure ==
  last.op = "validateAll" =>
    \A i \in 1..Len(last.results) :
      last.outcomes[i] # "true" =>
        /\ last.results[i].isValid = "false"
        /\ last.results[i].userData = nullData
        /\ ~Stored(jar, last.results[i].username)

\* C15: an account that setAccount(u, t2, d2) stored while validateAll was
\* suspended in validateRemote is still stored with token t2 and data d2
\* when the pass completes: the pass does not delete u on a verdict obtained
\* for the token it read before the addition (stated for additions whose
\* token differs from the one the pass read).
C15_AdditionsSurvive ==
  last.op = "validateAll" =>
    \A w \in last.written :
      (\A e \in last.accounts : e.username = w.username => e.token # w.token)
        => /\ getUserToken(jar, w.username) = w.token
           /\ getUserData(jar, w.username) = w.userData

\* C16: listAllUsernames (getAllSavedUsers) returns exactly the usernames that
\* have a userToken_{username} entry, whatever the roster holds: a stored
\* username that is not in the roster is returned too.
C16_ListIsTokenEntries ==
  /\ getAllSavedUsers(jar) = {u \in Users : TokenKey(u) \in DOMAIN jar}
  /\ \A u \in Users :
       (getUserToken(jar, u) # null /\ ~InRoster(jar, u)) => u \in getAllSavedUsers(jar)

\* three accounts are stored and listed, one of them evicted from the roster
C16_Witness ==
  /\ Cardinality(getAllSavedUsers(jar)) = 3
  /\ Len(roster) = rosterCap
  /\ \E u \in Users : getUserToken(jar, u) # null /\ ~InRoster(jar, u)

\* the digits of a string of the identifier shape: partition and body
\* (d[1]..d[6]) and the number written by the check digits
IdDigits(v) == [k \in 1..6 |-> DigitVal(v[<<1, 2, 6, 7, 8, 9>>[k]])]

IdCheck(v) == 10 * DigitVal(v[3]) + DigitVal(v[4])

\* a doubled digit of the Luhn sum: the digits of 2d added up
LuhnDouble(x) == ((2 * x) \div 10) + ((2 * x) % 10)

\* bit b of x
Bit(x, b) == (x \div (2 ^ b)) % 2

\* XOR of six digits, bit by bit
Xor6(d) ==
  LET ones(b) == Bit(d[1], b) + Bit(d[2], b) + Bit(d[3], b)
                 + Bit(d[4], b) + Bit(d[5], b) + Bit(d[6], b)
  IN (ones(0) % 2) + 2 * (ones(1) % 2) + 4 * (ones(2) % 2) + 8 * (ones(3) % 2)

\* the reference checksum of partition || body: every second digit from the
\* right doubled, weights 3, 7, 11, 13 by position mod 4, XOR, mod 100
RefChecksum(d) ==
  ( (LuhnDouble(d[1]) + d[2] + LuhnDouble(d[3]) + d[4] + LuhnDouble(d[5]) + d[6])
    + (3 * d[1] + 7 * d[2] + 11 * d[3] + 13 * d[4] + 3 * d[5] + 7 * d[6])
    + Xor6(d) ) % 100

RefValid(v) ==
  /\ v \notin NonStrings
  /\ Len(v) = 9
  /\ \A i \in {1, 2, 3, 4, 6, 7, 8, 9} : v[i] \in {Digits[n] : n \in 1..10}
  /\ v[5] = "-"
  /\ IdCheck(v) = RefChecksum(IdDigits(v))

\* C17: validate (validateUserId) returns true exactly for the strings of
\* shape dd dd - dddd whose check digits are the reference checksum of
\* partition and body, and false for every other input: non-strings, the
\* empty string, truncated and otherwise misshapen strings.
C17_ValidateIsReference ==
  ident.op = "validateUserId" => ident.valid = RefValid(ident.arg)

\* validateUserId accepted an identifier of a regular user
C17_Witness ==
  /\ ident.op = "validateUserId"
  /\ ident.valid
  /\ SubSeq(ident.arg, 1, 2) # ADMIN_PREFIX

\* C18: every identifier generateUserId can produce, for the admin
\* partition 00 and the partitions 01..99 and every body, satisfies
\* validateUserId.
C18_GeneratedIsValid ==
  ident.op = "generateUserId" => validateUserId(ident.id)

\* an identifier was generated whose partition and body needed padding
C18_Witness ==
  /\ ident.op = "generateUserId"
  /\ ~ident.isAdmin
  /\ ident.id[1] = "0"
  /\ ident.id[6] = "0"
  /\ validateUserId(ident.id)

\* The substitutions of one digit of a valid identifier, by classes.  The
\* digit at a check position never goes undetected (the checksum of the
\* other six digits is unchanged).  Digit k of the partition and body
\* (k in 1..6) enters the checksum by LuhnPart + WeightPart and by the XOR,
\* so whether replacing d by e goes undetected depends on k, d, e and the
\* XOR x of the other five digits only.
LuhnPart(k, x) == IF k \in {1, 3, 5} THEN LuhnDouble(x) ELSE x

WeightPart(k, x) == <<3, 7, 11, 13, 3, 7>>[k] * x

Collides(k, d, e, x) ==
  (LuhnPart(k, d) + WeightPart(k, d) + BitXor(x, d)) % 100
    = (LuhnPart(k, e) + WeightPart(k, e) + BitXor(x, e)) % 100

\* XorCount1[x] .. XorCount5[x]: how many strings of 1 .. 5 digits have XOR x
XorMore(count) ==
  [x \in 0..15 |->
     count[BitXor(x, 0)] + count[BitXor(x, 1)] + count[BitXor(x, 2)]
     + count[BitXor(x, 3)] + count[BitXor(x, 4)] + count[BitXor(x, 5)]
     + count[BitXor(x, 6)] + count[BitXor(x, 7)] + count[BitXor(x, 8)]
     + count[BitXor(x, 9)]]

XorCount1 == [x \in 0..15 |-> IF x <= 9 THEN 1 ELSE 0]

XorCount2 == XorMore(XorCount1)

XorCount3 == XorMore(XorCount2)

XorCount4 == XorMore(XorCount3)

XorCount5 == XorMore(XorCount4)

\* the classes (k, d, e) whose substitution goes undetected when the other
\* five digits have XOR x
CollidingClasses(x) ==
  {t \in (1..6) \X (0..9) \X (0..9) : t[2] # t[3] /\ Collides(t[1], t[2], t[3], x)}

\* undetected substitutions over all valid identifiers: one valid
\* identifier for each partition and body
RECURSIVE UndetectedUpTo(_)
UndetectedUpTo(x) ==
  IF x < 0 THEN 0
  ELSE XorCount5[x] * Cardinality(CollidingClasses(x)) + UndetectedUpTo(x - 1)

Undetected == UndetectedUpTo(15)

\* valid identifiers (100 partitions, 10000 bodies), 8 positions, 9 digits
Substitutions == 100 * 10000 * 8 * 9

\* the identifier with the character at position pos replaced
Substitute(id, pos, ch) == [id EXCEPT ![pos] = ch]

\* the XOR of the partition and body digits of id other than digit k
XorOthers(id, k) ==
  LET d == IdDigits(id)
  IN BitXor(Xor6(d), d[k])

\* does validateUserId accept the substitution, by its class
ClassUndetected(id, pos, ch) ==
  /\ pos \notin {3, 4}
  /\ LET k == CHOOSE n \in 1..6 : <<1, 2, 6, 7, 8, 9>>[n] = pos
     IN Collides(k, IdDigits(id)[k], DigitVal(ch), XorOthers(id, k))

\* C19: over all valid identifiers, the 8 digit positions and the 9 other
\* digits for the position, at most 1/100 of the single-digit substitutions
\* leave validateUserId true.  The count is taken by classes, and for every
\* generated identifier validateUserId accepts each of its 72 substitutions
\* exactly when the class of the substitution says so.
C19_DetectionRate ==
  /\ 100 * Undetected <= Substitutions
  /\ ident.op = "generateUserId" =>
       \A pos \in {1, 2, 3, 4, 6, 7, 8, 9}, n \in 1..10 :
         Digits[n] # ident.id[pos] =>
           validateUserId(Substitute(ident.id, pos, Digits[n]))
             = ClassUndetected(ident.id, pos, Digits[n])

\* a valid identifier with a substitution that validateUserId accepts
C19_Witness ==
  /\ ident.op = "generateUserId"
  /\ validateUserId(ident.id)
  /\ \E pos \in {1, 2, 3, 4, 6, 7, 8, 9}, n \in 1..10 :
       /\ Digits[n] # ident.id[pos]
       /\ validateUserId(Substitute(ident.id, pos, Digits[n]))

\* C20: the role given to generateUserId is the role isAdminId reads back,
\* and the partition of a regular identifier is one of 01..99, never 00.
C20_RoleRoundTrip ==
  ident.op = "generateUserId" =>
    /\ isAdminId(ident.id) = ident.isAdmin
    /\ ~ident.isAdmin =>
         /\ SubSeq(ident.id, 1, 2) # ADMIN_PREFIX
         /\ parseInt(SubSeq(ident.id, 1, 2)) \in 1..99

\* a regular identifier of the lowest partition was generated
C20_Witness ==
  /\ ident.op = "generateUserId"
  /\ ~ident.isAdmin
  /\ SubSeq(ident.id, 1, 2) = <<"0", "1">>
  /\ ~isAdminId(ident.id)

\* C21: an invalid identifier is never treated as administrator: isAdminId
\* is true only for an identifier that validateUserId accepts and whose
\* partition is 00; for an identifier that fails validateUserId, isAdminId,
\* hasPermission(id, 'admin') and hasPermission(id, 'user') are false and
\* getPrefix and getRandomDigits return null.
C21_InvalidNeverAdmin ==
  ident.op = "validateUserId" =>
    /\ isAdminId(ident.arg) =>
         ident.valid /\ SubSeq(ident.arg, 1, 2) = <<"0", "0">>
    /\ ~ident.valid =>
         /\ ~isAdminId(ident.arg)
         /\ ~hasPermission(ident.arg, "admin")
         /\ ~hasPermission(ident.arg, "user")
         /\ getPrefix(ident.arg) = null
         /\ getRandomDigits(ident.arg) = null

\* a string of the identifier shape with partition 00 and wrong check digits
C21_Witness ==
  /\ ident.op = "validateUserId"
  /\ ~ident.valid
  /\ Len(ident.arg) = 9
  /\ SubSeq(ident.arg, 1, 2) = <<"0", "0">>
  /\ ~isAdminId(ident.arg)

\* the identifier of the record is not valid, or the carried flag is not the
\* boolean that the partition gives
Inconsistent(rec) ==
  \/ ~RefValid(rec.id)
  \/ rec.isAdmin \notin {"true", "false"}
  \/ (rec.isAdmin = "true") # (SubSeq(rec.id, 1, 2) = <<"0", "0">>)

\* C22: a record whose identifier is invalid or whose isAdmin flag differs
\* from the role of its identifier (a missing flag included) is rejected:
\* validateUserData returns false, login and register return success false,
\* and login stores no auth token.
C22_InconsistentRejected ==
  (app.op \in {"login", "register", "validateUserData"}
     /\ app.response.data # NoRecord
     /\ Inconsistent(app.response.data))
    => ~app.success /\ app.authToken = null

\* the server answered success with a valid admin identifier and no flag,
\* and login rejected it
C22_Witness ==
  /\ app.op = "login"
  /\ ~app.response.threw
  /\ app.response.success
  /\ RefValid(app.response.data.id)
  /\ SubSeq(app.response.data.id, 1, 2) = <<"0", "0">>
  /\ app.response.data.isAdmin = "undefined"
  /\ app.response.data.token # null
  /\ ~app.success
  /\ app.authToken = null

\* C23: when the write of userToken_{u} or userData_{u} is refused,
\* setAccount (setUserToken) signals the failure to its caller: it does not
\* complete normally while getToken(u) or getAccount(u) does not return what
\* was to be stored.
C23_WriteFailureReported ==
  [][\A u \in RaceUsers, t \in TripTokens, d \in RaceData,
        lost \in {"token", "data"}, kind \in {"drop", "throw"} :
       SetAccountLosing(u, t, d, lost, kind)
         => \/ last'.raised
            \/ /\ getUserToken(jar', u) = t
               /\ getUserData(jar', u) = d]_vars

\* C25: re-login replaces the whole record: whatever was stored for u before,
\* getAccount(u) (getUserData) directly after setAccount(u, t, d) returns
\* exactly d; when d carries no avatar the result carries none.
C25_ReloginReplaces ==
  [][\A u \in Users, t \in Tokens, d \in AccountData :
       SetAccount(u, t, d) => getUserData(jar', u) = d]_vars

\* C26: last write wins: after any sequence of setLarge calls on one key
\* with non-empty values and no write failure, getLarge (getUserAvatar)
\* returns exactly the value of the last call.
C26_LastWriteWins ==
  (last.op = "setLarge" /\ last.value # <<>>)
    => getUserAvatar(jar, last.user) = last.value

\* C27: the reserved strings are data like any other: setLarge(k, v) with v
\* the chunk marker "chunked" or the sentinel "default" is followed by
\* getLarge(k) = v.
C27_MarkersAreData ==
  (last.op = "setLarge" /\ last.value \in {chunked, default})
    => getUserAvatar(jar, last.user) = last.value

\* C28: when validateAll completes with no other writer, every username
\* that listAllUsernames (getAllSavedUsers) still returns is in the result
\* list with isValid true, usernames whose data entry was missing at the
\* start of the pass included.
C28_NoUnverifiedLeft ==
  last.op = "validateAll" =>
    \A u \in getAllSavedUsers(jar) :
      \E i \in 1..Len(last.results) :
        /\ last.results[i].username = u
        /\ last.results[i].isValid = "true"

\* C29: no substitution of one digit turns the identifier of a regular user
\* into an administrator's.  For every generated regular identifier none of
\* its 72 substitutions satisfies isAdminId; and over all regular
\* identifiers, by classes: partition 00 is reached only by replacing the
\* non-zero digit d of a partition d0 or 0d by 0, and for no d and no XOR x
\* of the four body digits does that replacement keep the checksum.
C29_NoSingleDigitEscalation ==
  /\ \A k \in {1, 2}, d \in 1..9, x \in 0..15 : ~Collides(k, d, 0, x)
  /\ (ident.op = "generateUserId" /\ ~ident.isAdmin) =>
       \A pos \in {1, 2, 3, 4, 6, 7, 8, 9}, n \in 1..10 :
         Digits[n] # ident.id[pos] =>
           ~isAdminId(Substitute(ident.id, pos, Digits[n]))

\* a regular identifier one digit away from partition 00
C29_Witness ==
  /\ ident.op = "generateUserId"
  /\ ~ident.isAdmin
  /\ SubSeq(ident.id, 1, 2) = <<"0", "1">>
  /\ SubSeq(Substitute(ident.id, 2, "0"), 1, 2) = ADMIN_PREFIX
  /\ ~isAdminId(Substitute(ident.id, 2, "0"))

\* C24: selecting a remembered account reaches onLoginSuccess and the main
\* page only with stored data that passes validateUserData: a valid
\* identifier and an isAdmin flag equal to the role of the identifier.
C24_SelectChecksRecord ==
  (app.op = "handleUserSelect" /\ app.page = "main")
    => validateUserData(storedRecord(app.session))

\* C30: confirming the delete of a card applies deleteAccount to the
\* username of that card: its token and data entries are absent afterwards
\* and listAllUsernames (getAllSavedUsers) no longer returns it.
C30_CardDeleteDeletes ==
  app.op = "handleDeleteUser" =>
    /\ ~Stored(jar, app.user)
    /\ app.user \notin getAllSavedUsers(jar)

====
